---- MODULE Spec2Model ----
(***************************************************************************)
(* SimpleMind mind-map documents: the in-memory document model             *)
(* (simplemind_parser.py: SimpleMindNode, SimpleMindMap), the .smmx codec  *)
(* (SimpleMindParser.read / write) and the mutating and querying tools of  *)
(* the server (simplemind_mcp_server.py: handle_call_tool).                *)
(*                                                                         *)
(* Conventions                                                             *)
(*  - a Python str is a sequence of one-character strings; "" is <<>>.     *)
(*    The characters used are the digits, "-", letters and "_"; int() is   *)
(*    modelled on that alphabet (no blanks, no "_" digit separators).      *)
(*  - a coordinate is an integer number of thousandths (1234 is 1.234).    *)
(*  - an optional XML attribute or child element is <<>> when absent and   *)
(*    <<v>> when present with value v.                                     *)
(*  - Python objects live in a heap `objs`; a reference is an index into   *)
(*    it and 0 is None. The dict `nodes` is a sequence of (key, ref)       *)
(*    entries in insertion order.                                          *)
(***************************************************************************)
EXTENDS Integers, Sequences, FiniteSets, TLC

VARIABLES
    fs,      \* path -> archive stored at that path (exists = FALSE: no file)
    mm,      \* a SimpleMindMap held by a caller of the library API
    last,    \* the last completed call: its arguments, what it read, what it left
    walk,    \* get_node_path in progress: position of its while loop
    ncalls   \* number of calls made so far

vars == <<fs, mm, last, walk, ncalls>>

-----------------------------------------------------------------------------
(* Bounds of the model *)

MaxNodes == 4
MaxCalls == 2

-----------------------------------------------------------------------------
(* Python str / int / float conversions *)

Digits == <<"0", "1", "2", "3", "4", "5", "6", "7", "8", "9">>

IsDigit(c) == \E d \in 1..10 : Digits[d] = c

DigitVal(c) == (CHOOSE d \in 1..10 : Digits[d] = c) - 1

IsDigits(s) == Len(s) > 0 /\ \A i \in 1..Len(s) : IsDigit(s[i])

RECURSIVE DigitsVal(_)
DigitsVal(s) ==
    IF s = <<>> THEN 0
    ELSE 10 * DigitsVal(SubSeq(s, 1, Len(s) - 1)) + DigitVal(s[Len(s)])

\* int(s) succeeds (otherwise it raises ValueError)
IsInt(s) ==
    \/ IsDigits(s)
    \/ Len(s) > 1 /\ s[1] \in {"-", "+"} /\ IsDigits(Tail(s))

\* int(s), for IsInt(s)
IntOf(s) ==
    IF s[1] = "-" THEN 0 - DigitsVal(Tail(s))
    ELSE IF s[1] = "+" THEN DigitsVal(Tail(s))
    ELSE DigitsVal(s)

RECURSIVE NatStr(_)
NatStr(n) ==
    IF n < 10 THEN <<Digits[n + 1]>>
    ELSE NatStr(n \div 10) \o <<Digits[(n % 10) + 1]>>

\* str(n) of an int
StrOf(n) == IF n < 0 THEN <<"-">> \o NatStr(0 - n) ELSE NatStr(n)

\* f"{v:.2f}" followed by float(): the nearest multiple of 0.01, a tie (which
\* only a binary-exact value such as 0.125 can be) going to the even digit.
Fmt2(v) ==
    LET r == v % 10
        lo == v - r
    IN  IF r < 5 THEN lo
        ELSE IF r > 5 THEN lo + 10
        ELSE IF (lo \div 10) % 2 = 0 THEN lo ELSE lo + 10

\* element.get(name, default) / "elem.text or default"
Attr(opt, default) == IF opt = <<>> THEN default ELSE opt[1]

\* an attribute or element the encoder emits only "if value:"
\* an attribute written whatever the field holds
EmitAlways(s) == <<s>>

EmitIf(s) == IF s = <<>> THEN <<>> ELSE <<s>>

Sentinel == <<"-", "1">>

RECURSIVE SeqMax(_)
SeqMax(s) ==
    IF Len(s) = 1 THEN s[1]
    ELSE LET m == SeqMax(Tail(s)) IN IF s[1] > m THEN s[1] ELSE m

-----------------------------------------------------------------------------
(* SimpleMindNode *)

SimpleMindNode(id, text, parent_id, x, y, notes, guid) ==
    [id |-> id, text |-> text, parent_id |-> parent_id, x |-> x, y |-> y,
     notes |-> notes, guid |-> guid, palette |-> <<>>, colorinfo |-> <<>>,
     icon |-> <<>>, url_link |-> <<>>, layout_mode |-> <<>>,
     layout_direction |-> <<>>, layout_flow |-> <<>>,
     children |-> <<>>, parent_relation_guid |-> <<>>]

-----------------------------------------------------------------------------
(* SimpleMindMap *)

DefaultTitle ==
    <<"N", "e", "w", " ", "M", "i", "n", "d", " ", "M", "a", "p">>
DefaultStyle ==
    <<"s", "y", "s", "t", "e", "m", ".", "b", "r", "i", "g", "h", "t", "-",
      "p", "a", "l", "e", "t", "t", "e">>

SimpleMindMap ==
    [title |-> DefaultTitle, nodes |-> <<>>, objs |-> <<>>, root_node |-> 0,
     guid |-> <<>>, style |-> DefaultStyle, zoom |-> 100,
     scroll_x |-> 0, scroll_y |-> 0, contains_images |-> FALSE,
     relations |-> <<>>, images |-> <<>>]

\* key in d, for a dict d
HasKey(d, key) == \E i \in 1..Len(d) : d[i].key = key

\* d[key] = val: a present key keeps its place, a new one goes last
DictSet(d, key, val) ==
    IF HasKey(d, key)
    THEN [i \in 1..Len(d) |->
            IF d[i].key = key THEN [key |-> key, val |-> val] ELSE d[i]]
    ELSE Append(d, [key |-> key, val |-> val])

\* d.get(key), 0 standing for None
DictGet(d, key) ==
    IF HasKey(d, key)
    THEN d[CHOOSE i \in 1..Len(d) : d[i].key = key].val
    ELSE 0

\* del d[key]
\* a deletion that leaves the entry where it is
DictDelNone(d, key) == d

DictDel(d, key) == SelectSeq(d, LAMBDA e : e.key # key)

Keys(d) == {d[i].key : i \in 1..Len(d)}

\* a lookup that falls back to the root for an unknown id
get_node_or_root(doc, node_id) ==
    IF HasKey(doc.nodes, node_id) THEN DictGet(doc.nodes, node_id) ELSE doc.root_node

get_node(doc, node_id) == DictGet(doc.nodes, node_id)

\* add_node with a linking pass: the new node adopts the stored nodes that name it
add_node_adopting(doc, node) ==
    LET ref   == Len(doc.objs) + 1
        dict1 == DictSet(doc.nodes, node.id, ref)
        wait  == SelectSeq(doc.nodes, LAMBDA e : doc.objs[e.val].parent_id = node.id)
        node1 == [node EXCEPT !.children = [i \in 1..Len(wait) |-> wait[i].val]]
        objs1 == Append(doc.objs, node1)
    IN  IF node.parent_id = Sentinel
        THEN [doc EXCEPT !.objs = objs1, !.nodes = dict1, !.root_node = ref]
        ELSE IF HasKey(dict1, node.parent_id)
        THEN LET p == DictGet(dict1, node.parent_id)
             IN  [doc EXCEPT !.nodes = dict1,
                             !.objs = [objs1 EXCEPT ![p].children = Append(@, ref)]]
        ELSE [doc EXCEPT !.objs = objs1, !.nodes = dict1]

\* add_node of a freshly constructed node object
add_node(doc, node) ==
    LET ref   == Len(doc.objs) + 1
        objs1 == Append(doc.objs, node)
        dict1 == DictSet(doc.nodes, node.id, ref)
    IN  IF node.parent_id = Sentinel
        THEN [doc EXCEPT !.objs = objs1, !.nodes = dict1, !.root_node = ref]
        ELSE IF HasKey(dict1, node.parent_id)
        THEN LET p == DictGet(dict1, node.parent_id)
             IN  [doc EXCEPT !.nodes = dict1,
                             !.objs = [objs1 EXCEPT ![p].children = Append(@, ref)]]
        ELSE [doc EXCEPT !.objs = objs1, !.nodes = dict1]

-----------------------------------------------------------------------------
(* SimpleMindParser.read *)

LowerChar(c) ==
    CASE c = "A" -> "a" [] c = "B" -> "b" [] c = "C" -> "c"
      [] c = "T" -> "t" [] c = "R" -> "r" [] OTHER -> c

\* str.lower()
Lower(s) == [i \in 1..Len(s) |-> LowerChar(s[i])]

\* sub in s, for two str
IsSubstr(sub, s) ==
    \E i \in 0..(Len(s) - Len(sub)) : SubSeq(s, i + 1, i + Len(sub)) = sub

\* a loop body with two independent ifs: a node matching twice is appended twice
SearchHitTwice(node, ref, query_lower, search_notes) ==
    (IF IsSubstr(query_lower, Lower(node.text)) THEN <<ref>> ELSE <<>>)
    \o (IF search_notes /\ IsSubstr(query_lower, Lower(node.notes)) THEN <<ref>> ELSE <<>>)

\* the body of the loop of search_nodes: what one node appends to results
SearchHit(node, ref, query_lower, search_notes) ==
    IF IsSubstr(query_lower, Lower(node.text)) THEN <<ref>>
    ELSE IF search_notes /\ IsSubstr(query_lower, Lower(node.notes)) THEN <<ref>>
    ELSE <<>>

\* for node in self.nodes.values(): ...
RECURSIVE SearchLoop(_, _, _, _)
SearchLoop(doc, entries, query_lower, search_notes) ==
    IF entries = <<>> THEN <<>>
    ELSE SearchHit(doc.objs[entries[1].val], entries[1].val, query_lower, search_notes)
         \o SearchLoop(doc, Tail(entries), query_lower, search_notes)

\* a search that puts each match in front of the earlier ones
RECURSIVE search_nodes_reversed(_, _, _)
search_nodes_reversed(doc, query, search_notes) ==
    IF doc.nodes = <<>> THEN <<>>
    ELSE search_nodes_reversed([doc EXCEPT !.nodes = Tail(@)], query, search_notes)
         \o SearchHit(doc.objs[doc.nodes[1].val], doc.nodes[1].val, Lower(query),
                      search_notes)

\* SimpleMindMap.search_nodes: the references of the matching nodes
search_nodes(doc, query, search_notes) ==
    SearchLoop(doc, doc.nodes, Lower(query), search_notes)

StrTrue == <<"t", "r", "u", "e">>
StrFalse == <<"f", "a", "l", "s", "e">>
StrHundred == <<"1", "0", "0">>
Untitled == <<"U", "n", "t", "i", "t", "l", "e", "d">>
GeneratedGuid ==
    <<"G", "E", "N", "E", "R", "A", "T", "E", "D", "_", "G", "U", "I", "D">>

ImageExts == {"png", "jpg", "jpeg"}

\* the node object built from one <topic> record
NodeOfTopic(t) ==
    [id |-> t.id,
     text |-> Attr(t.text, <<>>),
     parent_id |-> t.parent,
     x |-> Attr(t.x, 0),
     y |-> Attr(t.y, 0),
     notes |-> Attr(t.note, <<>>),
     guid |-> Attr(t.guid, <<>>),
     palette |-> Attr(t.palette, <<>>),
     colorinfo |-> Attr(t.colorinfo, <<>>),
     icon |-> Attr(t.icon, <<>>),
     url_link |-> Attr(t.link, <<>>),
     layout_mode |-> IF t.layout = <<>> THEN <<>> ELSE Attr(t.layout[1].mode, <<>>),
     layout_direction |->
         IF t.layout = <<>> THEN <<>> ELSE Attr(t.layout[1].direction, <<>>),
     layout_flow |-> IF t.layout = <<>> THEN <<>> ELSE Attr(t.layout[1].flow, <<>>),
     children |-> <<>>,
     parent_relation_guid |-> Attr(t.parent_relation, <<>>)]

\* the loop over the topics, in document order: one add_node per record
RECURSIVE ReadTopics(_, _)
ReadTopics(doc, topics) ==
    IF topics = <<>> THEN doc
    ELSE ReadTopics(add_node(doc, NodeOfTopic(topics[1])), Tail(topics))

RECURSIVE ReadImages(_, _)
ReadImages(dict, entries) ==
    IF entries = <<>> THEN dict
    ELSE ReadImages(
            IF entries[1].ext \in ImageExts
            THEN DictSet(dict, entries[1].stem, entries[1].data)
            ELSE dict,
            Tail(entries))

ReadMeta(doc, meta) ==
    IF meta = <<>> THEN doc
    ELSE LET m == meta[1]
         IN  [doc EXCEPT
                !.title = IF m.title = <<>> THEN @ ELSE Attr(m.title[1], Untitled),
                !.guid = IF m.guid = <<>> THEN @ ELSE Attr(m.guid[1], <<>>),
                !.style = IF m.style = <<>> THEN @ ELSE Attr(m.style[1], DefaultStyle),
                !.zoom = IF m.scroll = <<>> THEN @
                         ELSE IntOf(Attr(m.scroll[1].zoom, StrHundred)),
                !.scroll_x = IF m.scroll = <<>> THEN @ ELSE Attr(m.scroll[1].x, 0),
                !.scroll_y = IF m.scroll = <<>> THEN @ ELSE Attr(m.scroll[1].y, 0),
                !.contains_images =
                    IF m.images = <<>> THEN @
                    ELSE Lower(Attr(m.images[1], StrFalse)) = StrTrue]

ReadRelations(rels) ==
    IF rels = <<>> THEN <<>>
    ELSE [i \in 1..Len(rels[1]) |->
            [guid |-> Attr(rels[1][i].guid, <<>>),
             source |-> Attr(rels[1][i].source, <<>>),
             target |-> Attr(rels[1][i].target, <<>>)]]

\* read raises instead of returning a document
ReadRaises(file) ==
    \/ ~file.exists
    \/ /\ file.meta # <<>>
       /\ file.meta[1].scroll # <<>>
       /\ ~IsInt(Attr(file.meta[1].scroll[1].zoom, StrHundred))

\* SimpleMindParser.read, for a file it does not raise on
Read(file) ==
    LET d0 == [SimpleMindMap EXCEPT !.images = ReadImages(<<>>, file.images)]
        d1 == ReadMeta(d0, file.meta)
        d2 == ReadTopics(d1, file.topics)
    IN  [d2 EXCEPT !.relations = ReadRelations(file.relations)]

-----------------------------------------------------------------------------
(* SimpleMindParser.write *)

\* the <topic> record of one node object
TopicOfNode(n) ==
    [id |-> n.id,
     parent |-> n.parent_id,
     guid |-> <<n.guid>>,
     x |-> <<Fmt2(n.x)>>,
     y |-> <<Fmt2(n.y)>>,
     palette |-> EmitIf(n.palette),
     colorinfo |-> EmitIf(n.colorinfo),
     icon |-> EmitIf(n.icon),
     text |-> <<n.text>>,
     parent_relation |-> EmitIf(n.parent_relation_guid),
     link |-> EmitIf(n.url_link),
     note |-> EmitIf(n.notes),
     layout |-> IF n.layout_mode = <<>> THEN <<>>
                ELSE <<[mode |-> <<n.layout_mode>>,
                        direction |-> EmitIf(n.layout_direction),
                        flow |-> EmitIf(n.layout_flow)]>>]

\* add_topic_element: the node's record, then its children's, recursively
RECURSIVE add_topic_element(_, _)
RECURSIVE add_topic_elements(_, _)

\* a walk that emits a node's record after its children's
add_topic_element_after(doc, ref) ==
    add_topic_elements(doc, doc.objs[ref].children) \o <<TopicOfNode(doc.objs[ref])>>

add_topic_element(doc, ref) ==
    <<TopicOfNode(doc.objs[ref])>> \o add_topic_elements(doc, doc.objs[ref].children)
add_topic_elements(doc, refs) ==
    IF refs = <<>> THEN <<>>
    ELSE add_topic_element(doc, refs[1]) \o add_topic_elements(doc, Tail(refs))

\* a walk that starts from the designated root alone
root_nodes_single(doc) == IF doc.root_node = 0 THEN <<>> ELSE <<doc.root_node>>

\* the values of the dict whose parent_id is the sentinel, in dict order
root_nodes(doc) ==
    LET sel == SelectSeq(doc.nodes, LAMBDA e : doc.objs[e.val].parent_id = Sentinel)
    IN  [i \in 1..Len(sel) |-> sel[i].val]

WriteMeta(doc) ==
    <<[guid |-> <<IF doc.guid # <<>> THEN <<doc.guid>> ELSE <<GeneratedGuid>> >>,
       title |-> << <<doc.title>> >>,
       images |-> IF doc.contains_images \/ doc.images # <<>>
                  THEN << <<StrTrue>> >> ELSE <<>>,
       style |-> << <<doc.style>> >>,
       scroll |-> <<[zoom |-> <<StrOf(doc.zoom)>>,
                     x |-> <<Fmt2(doc.scroll_x)>>,
                     y |-> <<Fmt2(doc.scroll_y)>>]>>,
       selection |-> IF doc.root_node = 0 THEN <<>>
                     ELSE <<[guid |-> doc.objs[doc.root_node].guid,
                             id |-> doc.objs[doc.root_node].id]>>]>>

\* SimpleMindParser.write: the archive it stores at the path
Write(doc) ==
    [exists |-> TRUE,
     meta |-> WriteMeta(doc),
     topics |-> add_topic_elements(doc, root_nodes(doc)),
     relations |-> IF doc.relations = <<>> THEN <<>>
                   ELSE <<[i \in 1..Len(doc.relations) |->
                            [guid |-> <<doc.relations[i].guid>>,
                             source |-> <<doc.relations[i].source>>,
                             target |-> <<doc.relations[i].target>>]]>>,
     images |-> [i \in 1..Len(doc.images) |->
                    [stem |-> doc.images[i].key, ext |-> "png",
                     data |-> doc.images[i].val]]]

\* the elements under <mindmap> in the order write creates them: the topic
\* records, then the relation records
DocumentOrder(doc) ==
    LET topics == add_topic_elements(doc, root_nodes(doc))
    IN  [i \in 1..Len(topics) |-> [kind |-> "topic", id |-> topics[i].id]]
        \o [i \in 1..Len(doc.relations) |->
               [kind |-> "relation", id |-> doc.relations[i].guid]]

\* attachment data: bytes, and a value zipfile cannot take the length of
Blob == "bytes"
NotBytes == "int"

\* z.writestr raises on an attachment (TypeError in len(data))
WriteRaises(doc) == \E i \in 1..Len(doc.images) : doc.images[i].val = NotBytes

\* what the path holds when writestr raised: the archive is already opened
\* for writing and holds the markup and the attachments written so far
WriteFailed(doc) ==
    LET bad == CHOOSE i \in 1..Len(doc.images) :
                  /\ doc.images[i].val = NotBytes
                  /\ \A j \in 1..(i - 1) : doc.images[j].val # NotBytes
    IN  [Write(doc) EXCEPT !.images = SubSeq(@, 1, bad - 1)]

NoFile == [exists |-> FALSE, meta |-> <<>>, topics |-> <<>>, relations |-> <<>>,
           images |-> <<>>]

-----------------------------------------------------------------------------
(* handle_call_tool: what a call leaves behind *)

Paths == {"a.smmx", "b.smmx"}

NoCall ==
    [tool |-> "none", filepath |-> "", output_path |-> "", id |-> <<>>,
     text |-> <<>>, notes |-> <<>>, outcome |-> "none",
     before |-> SimpleMindMap, after |-> SimpleMindMap,
     new_id |-> <<>>, deleted_count |-> 0, path |-> <<>>,
     search_notes |-> TRUE, results |-> <<>>, output_arg |-> <<>>, count |-> 0]

Idle == [pc |-> "idle", doc |-> SimpleMindMap, node_id |-> <<>>, cur |-> 0,
         path |-> <<>>]

\* an error return that comes after the write instead of before it
ReturnedAfterWrite(call, outcome, doc) ==
    /\ last' = [call EXCEPT !.outcome = outcome, !.before = doc, !.after = doc]
    /\ fs' = [fs EXCEPT ![call.output_path] = Write(doc)]
    /\ UNCHANGED <<mm, walk>>

\* the handler returned without reading a document or without changing one
Returned(call, outcome, doc) ==
    /\ last' = [call EXCEPT !.outcome = outcome, !.before = doc, !.after = doc]
    /\ UNCHANGED <<fs, mm, walk>>

\* a save that writes the original path as well as the output path
SavedBoth(call, doc, doc2) ==
    /\ last' = [call EXCEPT !.outcome = "ok", !.before = doc, !.after = doc2]
    /\ fs' = [fs EXCEPT ![call.filepath] = Write(doc2),
                        ![call.output_path] = Write(doc2)]
    /\ UNCHANGED <<mm, walk>>

\* the handler changed the document it read into doc2 and wrote it
Saved(call, doc, doc2) ==
    /\ last' = [call EXCEPT !.outcome = "ok", !.before = doc, !.after = doc2]
    /\ fs' = [fs EXCEPT ![call.output_path] = Write(doc2)]
    /\ UNCHANGED <<mm, walk>>

-----------------------------------------------------------------------------
(* add_node tool *)

Abs(v) == IF v < 0 THEN 0 - v ELSE v

RECURSIVE Gcd(_, _)
Gcd(a, b) == IF b = 0 THEN a ELSE Gcd(b, a % b)

\* math.sqrt(dx**2 + dy**2) of a vector whose length is a whole number of
\* thousandths (an axis-parallel vector or a multiple of a Pythagorean pair)
Hypot(dx, dy) ==
    IF dx = 0 THEN Abs(dy)
    ELSE IF dy = 0 THEN Abs(dx)
    ELSE LET g == Gcd(Abs(dx), Abs(dy))
             a == Abs(dx) \div g
             b == Abs(dy) \div g
         IN  g * (CHOOSE r \in 0..(a + b) : r * r = a * a + b * b)

Spacing == 80

\* a perpendicular used at its own length
Unscaled(p, length) == p

\* (p / length) * 80, in thousandths
Scaled(p, length) ==
    LET n == p * Spacing
    IN  (n \div length) * 1000 + ((n % length) * 1000) \div length

\* a placement whose odd child indexes go to the positive side
PlacementPositive(doc, parent) ==
    LET grandparent == IF parent.parent_id # Sentinel
                       THEN get_node(doc, parent.parent_id) ELSE 0
        k == Len(parent.children)
    IN  IF grandparent # 0
        THEN LET gp == doc.objs[grandparent]
                 dx == parent.x - gp.x
                 dy == parent.y - gp.y
                 perp_length == Hypot(0 - dy, dx)
                 perp_dx == IF perp_length > 0 THEN Scaled(0 - dy, perp_length)
                            ELSE 0 - dy
                 perp_dy == IF perp_length > 0 THEN Scaled(dx, perp_length) ELSE dx
                 offset_mult == IF k % 2 = 0 THEN k \div 2 ELSE (k + 1) \div 2
             IN  [x |-> parent.x + dx + perp_dx * offset_mult,
                  y |-> parent.y + dy + perp_dy * offset_mult]
        ELSE [x |-> parent.x + 200000, y |-> parent.y + k * 100000]

\* the position of a new child of `parent`
Placement(doc, parent) ==
    LET grandparent == IF parent.parent_id # Sentinel
                       THEN get_node(doc, parent.parent_id) ELSE 0
        k == Len(parent.children)
    IN  IF grandparent # 0
        THEN LET gp == doc.objs[grandparent]
                 dx == parent.x - gp.x
                 dy == parent.y - gp.y
                 base_x == parent.x + dx
                 base_y == parent.y + dy
                 perp_length == Hypot(0 - dy, dx)
                 perp_dx == IF perp_length > 0 THEN Scaled(0 - dy, perp_length)
                            ELSE 0 - dy
                 perp_dy == IF perp_length > 0 THEN Scaled(dx, perp_length) ELSE dx
                 offset_mult == IF k % 2 = 0 THEN k \div 2 ELSE 0 - ((k + 1) \div 2)
             IN  IF k > 0
                 THEN [x |-> base_x + perp_dx * offset_mult,
                       y |-> base_y + perp_dy * offset_mult]
                 ELSE [x |-> base_x, y |-> base_y]
        ELSE [x |-> parent.x + 200000, y |-> parent.y + k * 100000]

\* new_id = str(max([int(nid) for nid in mindmap.nodes.keys()]) + 1)
NewId(doc) ==
    StrOf(SeqMax([i \in 1..Len(doc.nodes) |-> IntOf(doc.nodes[i].key)]) + 1)

AddNodeTool(filepath, parent_id, text, notes, output_path) ==
    LET call == [NoCall EXCEPT !.tool = "add_node", !.filepath = filepath,
                    !.id = parent_id, !.text = <<text>>, !.notes = notes,
                    !.output_path = Attr(output_path, filepath),
                    !.output_arg = output_path]
    IN  IF ReadRaises(fs[filepath]) THEN Returned(call, "exception", SimpleMindMap)
        ELSE LET mindmap == Read(fs[filepath])
                 parent  == get_node(mindmap, parent_id)
             IN  IF parent = 0 THEN Returned(call, "not_found", mindmap)
                 ELSE IF \E key \in Keys(mindmap.nodes) : ~IsInt(key)
                 THEN Returned(call, "exception", mindmap)
                 ELSE LET new_id == NewId(mindmap)
                          pos == Placement(mindmap, mindmap.objs[parent])
                          new_node == SimpleMindNode(new_id, text, parent_id,
                                          pos.x, pos.y, Attr(notes, <<>>),
                                          <<"G", "E", "N", "E", "R", "A", "T", "E", "D", "_">>
                                              \o new_id)
                      IN  Saved([call EXCEPT !.new_id = new_id], mindmap,
                                add_node(mindmap, new_node))

-----------------------------------------------------------------------------
(* update_node tool *)

\* Python truth of an optional str argument: None and "" are false
Truthy(arg) == arg # <<>> /\ arg[1] # <<>>

\* an update that puts a newly built node in the place of the old one
UpdateReplacing(doc, node, new_text, new_notes) ==
    LET old == doc.objs[node]
    IN  [doc EXCEPT !.objs[node] =
            SimpleMindNode(old.id,
                           IF Truthy(new_text) THEN new_text[1] ELSE old.text,
                           old.parent_id, old.x, old.y,
                           IF new_notes # <<>> THEN new_notes[1] ELSE old.notes,
                           old.guid)]

UpdateFields(doc, node, new_text, new_notes) ==
    LET o1 == IF Truthy(new_text)
              THEN [doc.objs EXCEPT ![node].text = new_text[1]] ELSE doc.objs
        o2 == IF new_notes # <<>>
              THEN [o1 EXCEPT ![node].notes = new_notes[1]] ELSE o1
    IN  [doc EXCEPT !.objs = o2]

UpdateNodeTool(filepath, node_id, new_text, new_notes, output_path) ==
    LET call == [NoCall EXCEPT !.tool = "update_node", !.filepath = filepath,
                    !.id = node_id, !.text = new_text, !.notes = new_notes,
                    !.output_path = Attr(output_path, filepath),
                    !.output_arg = output_path]
    IN  IF ~Truthy(new_text) /\ ~Truthy(new_notes)
        THEN Returned(call, "invalid", SimpleMindMap)
        ELSE IF ReadRaises(fs[filepath])
        THEN Returned(call, "exception", SimpleMindMap)
        ELSE LET mindmap == Read(fs[filepath])
                 node == get_node(mindmap, node_id)
             IN  IF node = 0 THEN Returned(call, "not_found", mindmap)
                 ELSE Saved(call, mindmap,
                            UpdateFields(mindmap, node, new_text, new_notes))

-----------------------------------------------------------------------------
(* delete_node tool *)

RECURSIVE count_descendants(_, _)
RECURSIVE count_all(_, _)
count_descendants(doc, n) == 1 + count_all(doc, doc.objs[n].children)
count_all(doc, refs) ==
    IF refs = <<>> THEN 0
    ELSE count_descendants(doc, refs[1]) + count_all(doc, Tail(refs))

\* a removal that forgets the descendants
remove_node_only(dict, doc, n) == DictDel(dict, doc.objs[n].id)

\* remove_node_and_children, on the dict: children first, then the node's key
RECURSIVE remove_node_and_children(_, _, _)
RECURSIVE remove_all(_, _, _)
remove_node_and_children(dict, doc, n) ==
    DictDel(remove_all(dict, doc, doc.objs[n].children), doc.objs[n].id)
remove_all(dict, doc, refs) ==
    IF refs = <<>> THEN dict
    ELSE remove_all(remove_node_and_children(dict, doc, refs[1]), doc, Tail(refs))

\* an unlinking that empties the parent's children list
UnlinkClearing(doc, parent, node_id) ==
    IF parent = 0 THEN doc.objs
    ELSE [doc.objs EXCEPT ![parent].children = <<>>]

\* parent.children = [c for c in parent.children if c.id != node_id]
Unlink(doc, parent, node_id) ==
    IF parent = 0 THEN doc.objs
    ELSE [doc.objs EXCEPT ![parent].children =
              SelectSeq(@, LAMBDA c : doc.objs[c].id # node_id)]

\* a root check that never fires
IsRootNodeNever(node) == FALSE

\* if node.parent_id == "-1": the root is not deleted
IsRootNode(node) == node.parent_id = Sentinel

DeleteNodeTool(filepath, node_id, output_path) ==
    LET call == [NoCall EXCEPT !.tool = "delete_node", !.filepath = filepath,
                    !.id = node_id, !.output_path = Attr(output_path, filepath),
                    !.output_arg = output_path]
    IN  IF ReadRaises(fs[filepath]) THEN Returned(call, "exception", SimpleMindMap)
        ELSE LET mindmap == Read(fs[filepath])
                 node == get_node(mindmap, node_id)
             IN  IF node = 0 THEN Returned(call, "not_found", mindmap)
                 ELSE IF IsRootNode(mindmap.objs[node])
                 THEN Returned(call, "invalid", mindmap)
                 ELSE LET deleted_count == count_descendants(mindmap, node)
                          parent == get_node(mindmap, mindmap.objs[node].parent_id)
                          objs1 == Unlink(mindmap, parent, node_id)
                          dict1 == remove_node_and_children(mindmap.nodes, mindmap, node)
                      IN  Saved([call EXCEPT !.deleted_count = deleted_count],
                                mindmap,
                                [mindmap EXCEPT !.objs = objs1, !.nodes = dict1])

-----------------------------------------------------------------------------
(* find_nodes_without_notes tool *)

\* format_node_info(node, include_children=False)
format_node_info(node) ==
    [id |-> node.id, text |-> node.text, notes |-> node.notes,
     parent_id |-> node.parent_id, guid |-> node.guid,
     position |-> [x |-> node.x, y |-> node.y],
     child_count |-> Len(node.children)]

\* a filter that lets the root through
WithoutNotesAny(node) == node.notes = <<>>

\* if not node.notes and node.parent_id != "-1"
WithoutNotes(node) == node.notes = <<>> /\ node.parent_id # Sentinel

FindNodesWithoutNotesTool(filepath) ==
    LET call == [NoCall EXCEPT !.tool = "find_nodes_without_notes",
                    !.filepath = filepath]
    IN  IF ReadRaises(fs[filepath]) THEN Returned(call, "exception", SimpleMindMap)
        ELSE LET mindmap == Read(fs[filepath])
                 sel == SelectSeq(mindmap.nodes,
                                  LAMBDA e : WithoutNotes(mindmap.objs[e.val]))
                 empty_nodes == [i \in 1..Len(sel) |->
                                    format_node_info(mindmap.objs[sel[i].val])]
             IN  Returned([call EXCEPT !.results = empty_nodes,
                                       !.count = Len(empty_nodes)],
                          "ok", mindmap)

-----------------------------------------------------------------------------
(* get_node_path tool: its while loop runs one iteration per step *)

GetNodePathStart(filepath, node_id) ==
    LET call == [NoCall EXCEPT !.tool = "get_node_path", !.filepath = filepath,
                    !.id = node_id]
    IN  IF ReadRaises(fs[filepath]) THEN Returned(call, "exception", SimpleMindMap)
        ELSE LET mindmap == Read(fs[filepath])
                 node == get_node(mindmap, node_id)
             IN  IF node = 0 THEN Returned(call, "not_found", mindmap)
                 ELSE /\ walk' = [pc |-> "loop", doc |-> mindmap,
                                  node_id |-> node_id, cur |-> node, path |-> <<>>]
                      /\ last' = [call EXCEPT !.outcome = "running",
                                     !.before = mindmap, !.after = mindmap]
                      /\ UNCHANGED <<fs, mm>>

\* path.append instead of path.insert(0, ...)
PathAppend(path, current) == Append(path, [id |-> current.id, text |-> current.text])

\* path.insert(0, {"id": current.id, "text": current.text})
PathInsert(path, current) == <<[id |-> current.id, text |-> current.text]>> \o path

\* one iteration of "while current:"; the handler returns when the loop ends
GetNodePathStep ==
    /\ walk.pc = "loop"
    /\ Len(walk.path) <= Len(walk.doc.nodes)
    /\ LET current == walk.doc.objs[walk.cur]
           path1 == PathInsert(walk.path, current)
           next == IF current.parent_id = Sentinel THEN 0
                   ELSE get_node(walk.doc, current.parent_id)
       IN  IF next = 0
           THEN /\ last' = [last EXCEPT !.outcome = "ok", !.path = path1]
                /\ walk' = Idle
           ELSE /\ walk' = [walk EXCEPT !.cur = next, !.path = path1]
                /\ UNCHANGED last
    /\ UNCHANGED <<fs, mm, ncalls>>

-----------------------------------------------------------------------------
(* Inputs *)

S0 == <<"0">>
S1 == <<"1">>
S2 == <<"2">>
S3 == <<"3">>
S7 == <<"7">>
MissingId == <<"9", "9">>

TextRoot == <<"R">>
TextA == <<"A">>
TextB == <<"B", "c">>
TextNew == <<"T", "a">>
NotesOld == <<"c", "a">>
NotesNew == <<"A", "b">>

RECURSIVE Build(_, _)
Build(doc, nodes) ==
    IF nodes = <<>> THEN doc ELSE Build(add_node(doc, nodes[1]), Tail(nodes))

NodeRoot == SimpleMindNode(S0, TextRoot, Sentinel, 0, 0, <<>>, <<"G", "0">>)
NodeA == SimpleMindNode(S1, TextA, S0, 100000, 0, NotesOld, <<"G", "1">>)
NodeB == SimpleMindNode(S2, TextB, S1, 200000, 0, <<>>, <<"G", "2">>)
NodeC == SimpleMindNode(S3, TextB, S0, 0, 100000, <<>>, <<"G", "3">>)

\* a cross-link between two nodes, as an entry of mindmap.relations
Relation(guid, source, target) == [guid |-> guid, source |-> source, target |-> target]

\* archives the encoder wrote from single-root trees; the last with a
\* cross-link between the two children and an attachment
WellFormedFiles ==
    { Write(Build(SimpleMindMap, <<NodeRoot>>)),
      Write(Build(SimpleMindMap, <<NodeRoot, NodeA, NodeB>>)),
      Write([Build(SimpleMindMap, <<NodeRoot, NodeA, NodeC>>)
                EXCEPT !.relations = <<Relation(<<"x">>, S1, S3)>>,
                       !.images = <<[key |-> "h1", val |-> "bytes"]>>]) }

\* a <topic> record carrying only the attributes given
Topic(id, parent, text, x, y) ==
    [id |-> id, parent |-> parent, guid |-> <<>>, x |-> <<x>>, y |-> <<y>>,
     palette |-> <<>>, colorinfo |-> <<>>, icon |-> <<>>, text |-> <<text>>,
     parent_relation |-> <<>>, link |-> <<>>, note |-> <<>>, layout |-> <<>>]

RawFile(topics) ==
    [exists |-> TRUE, meta |-> <<>>, topics |-> topics, relations |-> <<>>,
     images |-> <<>>]

\* archives from elsewhere: any record order, any parent references
RawFiles ==
    { \* a child's record before its parent's
      RawFile(<<Topic(S1, S0, TextA, 100000, 0), Topic(S0, Sentinel, TextRoot, 0, 0)>>),
      \* parent links forming a cycle
      RawFile(<<Topic(S0, Sentinel, TextRoot, 0, 0), Topic(S1, S2, TextA, 0, 0),
                Topic(S2, S1, TextB, 0, 0)>>),
      \* a parent id that no record carries
      RawFile(<<Topic(S0, Sentinel, TextRoot, 0, 0), Topic(S1, S7, TextA, 0, 0)>>),
      \* a tree in document order, positions with three decimals
      RawFile(<<Topic(S0, Sentinel, TextRoot, 0, 0), Topic(S1, S0, TextA, 1234, 0),
                Topic(S2, S1, TextB, 2468, 0)>>),
      \* a tree whose child stands where its parent stands
      RawFile(<<Topic(S0, Sentinel, TextRoot, 0, 0), Topic(S1, S0, TextA, 0, 0)>>),
      \* a tree as the encoder writes it
      Write(Build(SimpleMindMap, <<NodeRoot, NodeA>>)) }

\* (text, notes) arguments of update_node: <<>> is an argument not supplied
UpdateArgs ==
    { <<<<>>, <<>>>>, <<<<>>, << <<>> >>>>, << << <<>> >>, <<>>>>,
      <<<<TextNew>>, <<>>>>, <<<<>>, <<NotesNew>>>>, <<<<TextNew>>, << <<>> >>>> }
OutArgs == {<<>>, <<"b.smmx">>}

\* the ids a caller may name: those of the stored document and one more
IdArgs(filepath) ==
    IF ReadRaises(fs[filepath]) THEN {MissingId}
    ELSE Keys(Read(fs[filepath]).nodes) \cup {MissingId}

-----------------------------------------------------------------------------
(* The server: one tool call at a time *)

\* a tool call arrives while no handler is running
Called ==
    /\ walk.pc = "idle"
    /\ ncalls < MaxCalls
    /\ ncalls' = ncalls + 1

AddNode ==
    /\ Called
    /\ \E filepath \in {"a.smmx"}, parent_id \in IdArgs("a.smmx"),
          notes \in {<<>>, <<NotesNew>>}, out \in OutArgs :
          /\ Len(Read(fs[filepath]).nodes) < MaxNodes
          /\ AddNodeTool(filepath, parent_id, TextNew, notes, out)

UpdateNode ==
    /\ Called
    /\ \E filepath \in {"a.smmx"}, node_id \in IdArgs("a.smmx"),
          args \in UpdateArgs, out \in OutArgs :
          UpdateNodeTool(filepath, node_id, args[1], args[2], out)

DeleteNode ==
    /\ Called
    /\ \E filepath \in {"a.smmx"}, node_id \in IdArgs("a.smmx"), out \in OutArgs :
          DeleteNodeTool(filepath, node_id, out)

GetNodePath ==
    /\ Called
    /\ \E filepath \in Paths :
          \E node_id \in IdArgs(filepath) : GetNodePathStart(filepath, node_id)

Init ==
    /\ \E f \in WellFormedFiles : fs = [p \in Paths |-> IF p = "a.smmx" THEN f ELSE NoFile]
    /\ mm = SimpleMindMap
    /\ last = NoCall
    /\ walk = Idle
    /\ ncalls = 0

Next == AddNode \/ UpdateNode \/ DeleteNode \/ GetNodePath \/ GetNodePathStep

Spec == Init /\ [][Next]_vars

\* a branch that leaves the root at a slant: direction (30, 40), length 50
NodeSlantA == SimpleMindNode(S1, TextA, S0, 30000, 40000, <<>>, <<"G", "1">>)
NodeSlantB == SimpleMindNode(S2, TextB, S1, 60000, 80000, <<>>, <<"G", "2">>)

SlantFiles ==
    { Write(Build(SimpleMindMap, <<NodeRoot, NodeSlantA>>)),
      Write(Build(SimpleMindMap, <<NodeRoot, NodeSlantA, NodeSlantB>>)) }

MaxSlantNodes == 5

\* add_node calls under the two nodes of the branch
AddNodeSlant ==
    /\ Called
    /\ \E filepath \in {"a.smmx"}, parent_id \in {S1, S2},
          notes \in {<<>>, <<NotesNew>>}, out \in OutArgs :
          /\ Len(Read(fs[filepath]).nodes) < MaxSlantNodes
          /\ AddNodeTool(filepath, parent_id, TextNew, notes, out)

InitSlant ==
    /\ \E f \in SlantFiles : fs = [p \in Paths |-> IF p = "a.smmx" THEN f ELSE NoFile]
    /\ mm = SimpleMindMap
    /\ last = NoCall
    /\ walk = Idle
    /\ ncalls = 0

NextSlant == AddNodeSlant \/ DeleteNode

SpecSlant == InitSlant /\ [][NextSlant]_vars

\* a caller that decoded the archive before a run of up to three add_node
\* and delete_node calls
MaxUndoCalls == 3

CalledUndo ==
    /\ walk.pc = "idle"
    /\ ncalls < MaxUndoCalls
    /\ ncalls' = ncalls + 1

AddNodeUndo ==
    /\ CalledUndo
    /\ \E filepath \in {"a.smmx"}, parent_id \in IdArgs("a.smmx"), out \in OutArgs :
          /\ Len(Read(fs[filepath]).nodes) < MaxNodes
          /\ AddNodeTool(filepath, parent_id, TextNew, <<>>, out)

DeleteNodeUndo ==
    /\ CalledUndo
    /\ \E filepath \in {"a.smmx"}, node_id \in IdArgs("a.smmx"), out \in OutArgs :
          DeleteNodeTool(filepath, node_id, out)

InitUndo ==
    /\ \E f \in WellFormedFiles :
          /\ fs = [p \in Paths |-> IF p = "a.smmx" THEN f ELSE NoFile]
          /\ mm = Read(f)
    /\ last = NoCall
    /\ walk = Idle
    /\ ncalls = 0

NextUndo == AddNodeUndo \/ DeleteNodeUndo

SpecUndo == InitUndo /\ [][NextUndo]_vars

\* archives with two records whose parent is the sentinel: a main theme
\* and a floating one, each with a child or none, in either order
ForestFiles ==
    { RawFile(<<Topic(S0, Sentinel, TextRoot, 0, 0), Topic(S2, Sentinel, TextB, 300000, 0),
                Topic(S3, S2, TextNew, 400000, 0)>>),
      RawFile(<<Topic(S0, Sentinel, TextRoot, 0, 0), Topic(S1, S0, TextA, 100000, 0),
                Topic(S2, Sentinel, TextB, 300000, 0), Topic(S3, S2, TextNew, 400000, 0)>>),
      RawFile(<<Topic(S2, Sentinel, TextB, 300000, 0), Topic(S3, S2, TextNew, 400000, 0),
                Topic(S0, Sentinel, TextRoot, 0, 0)>>) }

InitForest ==
    /\ \E f \in ForestFiles : fs = [p \in Paths |-> IF p = "a.smmx" THEN f ELSE NoFile]
    /\ mm = SimpleMindMap
    /\ last = NoCall
    /\ walk = Idle
    /\ ncalls = 0

NextForest == AddNode \/ DeleteNode

SpecForest == InitForest /\ [][NextForest]_vars

FindNodesWithoutNotes ==
    /\ Called
    /\ \E filepath \in Paths : FindNodesWithoutNotesTool(filepath)

\* trees and two-theme archives, some nodes with notes and some without
InitNotes ==
    /\ \E f \in WellFormedFiles \cup ForestFiles :
          fs = [p \in Paths |-> IF p = "a.smmx" THEN f ELSE NoFile]
    /\ mm = SimpleMindMap
    /\ last = NoCall
    /\ walk = Idle
    /\ ncalls = 0

NextNotes == FindNodesWithoutNotes \/ AddNode

SpecNotes == InitNotes /\ [][NextNotes]_vars

InitRaw ==
    /\ \E f \in RawFiles : fs = [p \in Paths |-> IF p = "a.smmx" THEN f ELSE NoFile]
    /\ mm = SimpleMindMap
    /\ last = NoCall
    /\ walk = Idle
    /\ ncalls = 0

SpecRaw == InitRaw /\ [][Next]_vars

\* an archive whose root carries a negative id: int("-2") is -2
NodeSigned == SimpleMindNode(<<"-", "2">>, TextRoot, Sentinel, 0, 0, <<>>, <<"G", "0">>)

SignedFiles ==
    { Write(Build(SimpleMindMap, <<NodeSigned>>)),
      Write(Build(SimpleMindMap, <<NodeSigned, [NodeA EXCEPT !.parent_id = NodeSigned.id]>>)) }

InitSigned ==
    /\ \E f \in SignedFiles : fs = [p \in Paths |-> IF p = "a.smmx" THEN f ELSE NoFile]
    /\ mm = SimpleMindMap
    /\ last = NoCall
    /\ walk = Idle
    /\ ncalls = 0

SpecSigned == InitSigned /\ [][Next]_vars

\* archives holding an id that int() rejects
NodeOpaque == SimpleMindNode(<<"x">>, TextB, S0, 0, 100000, <<>>, <<"G", "x">>)

OpaqueFiles ==
    { Write(Build(SimpleMindMap, <<NodeRoot, NodeOpaque>>)),
      Write(Build(SimpleMindMap, <<NodeRoot, NodeA, NodeOpaque>>)) }

InitOpaque ==
    /\ \E f \in OpaqueFiles : fs = [p \in Paths |-> IF p = "a.smmx" THEN f ELSE NoFile]
    /\ mm = SimpleMindMap
    /\ last = NoCall
    /\ walk = Idle
    /\ ncalls = 0

SpecOpaque == InitOpaque /\ [][Next]_vars

-----------------------------------------------------------------------------
(* A caller of the library: SimpleMindMap(), add_node, write_mindmap,       *)
(* read_mindmap (tests/test_parser.py, examples.py)                          *)

MaxLibNodes == 3

WithPro(node, icon, url_link, mode, direction, flow) ==
    [node EXCEPT !.icon = icon, !.url_link = url_link, !.layout_mode = mode,
                 !.layout_direction = direction, !.layout_flow = flow]

LibRoot == SimpleMindNode(S0, TextRoot, Sentinel, 400000, 400000, NotesOld, <<"R", "G">>)
LibChild == SimpleMindNode(S1, TextA, S0, 500000, 400000, <<>>, <<"C", "G">>)
\* layout direction set, layout mode not set
LibHint == WithPro(SimpleMindNode(S2, TextB, S0, 0, 0, <<>>, <<>>),
                   <<>>, <<>>, <<>>, <<"r">>, <<>>)
\* position 1.234, 0.125
LibFine == SimpleMindNode(S3, TextB, S1, 1234, 125, <<>>, <<>>)
LibPro == WithPro(SimpleMindNode(<<"4">>, TextB, S1, 0, 0, NotesNew, <<>>),
                  <<"s">>, <<"u">>, <<"h">>, <<"r">>, <<"l">>)
\* the id of LibChild again, under another parent
LibMoved == SimpleMindNode(S1, TextNew, S2, 0, 0, <<>>, <<>>)
LibFloating == SimpleMindNode(<<"5">>, TextNew, Sentinel, 0, 0, <<>>, <<>>)
LibOrphan == SimpleMindNode(<<"6">>, TextNew, S7, 0, 0, <<>>, <<>>)

LibNodes == {LibRoot, LibChild, LibFine, LibPro, LibHint, LibMoved, LibFloating,
             LibOrphan}

LibAddNode ==
    /\ Len(mm.objs) < MaxLibNodes
    /\ \E node \in LibNodes :
          /\ mm' = add_node(mm, node)
          /\ last' = [NoCall EXCEPT !.tool = "add_node_method", !.id = node.id]
    /\ UNCHANGED <<fs, walk, ncalls>>

\* a write that stores the generated document guid in the document
LibWriteStamping ==
    /\ ~WriteRaises(mm)
    /\ fs' = [fs EXCEPT !["a.smmx"] = Write(mm)]
    /\ last' = [NoCall EXCEPT !.tool = "write_mindmap", !.outcome = "ok"]
    /\ mm' = [mm EXCEPT !.guid = IF @ = <<>> THEN GeneratedGuid ELSE @]
    /\ UNCHANGED <<walk, ncalls>>

LibWrite ==
    /\ IF WriteRaises(mm)
       THEN /\ fs' = [fs EXCEPT !["a.smmx"] = WriteFailed(mm)]
            /\ last' = [NoCall EXCEPT !.tool = "write_mindmap", !.outcome = "exception"]
       ELSE /\ fs' = [fs EXCEPT !["a.smmx"] = Write(mm)]
            /\ last' = [NoCall EXCEPT !.tool = "write_mindmap", !.outcome = "ok"]
    /\ UNCHANGED <<mm, walk, ncalls>>

LibRead ==
    /\ ~ReadRaises(fs["a.smmx"])
    /\ mm' = Read(fs["a.smmx"])
    /\ last' = [NoCall EXCEPT !.tool = "read_mindmap"]
    /\ UNCHANGED <<fs, walk, ncalls>>

\* a caller stores an attachment: mindmap.images[image_hash] = data
MaxImages == 2
ImageHashes == {"h1", "h2"}

LibAttach ==
    /\ Len(mm.images) < MaxImages
    /\ \E image_hash \in ImageHashes, data \in {Blob, NotBytes} :
          mm' = [mm EXCEPT !.images = DictSet(@, image_hash, data)]
    /\ last' = [NoCall EXCEPT !.tool = "attach"]
    /\ UNCHANGED <<fs, walk, ncalls>>

\* queries of a search: empty, upper and lower case, one or two characters
Queries == {<<>>, <<"A">>, <<"b">>, <<"T", "a">>}

LibSearchNodes ==
    /\ \E query \in Queries, search_notes \in BOOLEAN :
          last' = [NoCall EXCEPT !.tool = "search_nodes", !.text = <<query>>,
                      !.search_notes = search_notes, !.outcome = "ok",
                      !.before = mm, !.after = mm,
                      !.results = search_nodes(mm, query, search_notes)]
    /\ UNCHANGED <<fs, mm, walk, ncalls>>

InitLib ==
    /\ fs = [p \in Paths |-> NoFile]
    /\ mm = SimpleMindMap
    /\ last = NoCall
    /\ walk = Idle
    /\ ncalls = 0

NextLib == LibAddNode \/ LibWrite \/ LibRead \/ LibSearchNodes

SpecLib == InitLib /\ [][NextLib]_vars

\* SimpleMindNode.to_dict: the fixed keys, then a key per extended attribute
\* that is set; the children converted the same way
NodeDictKeys == {"id", "text", "parent_id", "x", "y", "notes", "guid", "palette",
                 "colorinfo", "children"}

RECURSIVE to_dict(_, _)
to_dict(doc, ref) ==
    LET self == doc.objs[ref]
        keys == NodeDictKeys
                  \cup (IF self.icon # <<>> THEN {"icon"} ELSE {})
                  \cup (IF self.url_link # <<>> THEN {"url_link"} ELSE {})
                  \cup (IF self.layout_mode # <<>> THEN {"layout"} ELSE {})
    IN  [k \in keys |->
           CASE k = "id" -> self.id
             [] k = "text" -> self.text
             [] k = "parent_id" -> self.parent_id
             [] k = "x" -> self.x
             [] k = "y" -> self.y
             [] k = "notes" -> self.notes
             [] k = "guid" -> self.guid
             [] k = "palette" -> self.palette
             [] k = "colorinfo" -> self.colorinfo
             [] k = "children" ->
                  [i \in 1..Len(self.children) |-> to_dict(doc, self.children[i])]
             [] k = "icon" -> self.icon
             [] k = "url_link" -> self.url_link
             [] k = "layout" -> [mode |-> self.layout_mode,
                                 direction |-> self.layout_direction,
                                 flow |-> self.layout_flow]]

\* nodes built with the constructor's optional arguments
MaxProNodes == 2

ProNode(id, parent_id, notes, palette, colorinfo, icon, url_link, mode, direction, flow) ==
    [WithPro(SimpleMindNode(id, TextA, parent_id, 0, 0, notes, <<>>),
             icon, url_link, mode, direction, flow)
       EXCEPT !.palette = palette, !.colorinfo = colorinfo]

ProNodes ==
    { \* nothing set
      ProNode(S0, Sentinel, <<>>, <<>>, <<>>, <<>>, <<>>, <<>>, <<>>, <<>>),
      \* everything set
      ProNode(S0, Sentinel, NotesOld, <<"p">>, <<"c">>, <<"s">>, <<"u">>, <<"h">>,
              <<"r">>, <<"l">>),
      \* notes and palette
      ProNode(S1, S0, NotesNew, <<"p">>, <<>>, <<>>, <<>>, <<>>, <<>>, <<>>),
      \* colorinfo and icon
      ProNode(S1, S0, <<>>, <<>>, <<"c">>, <<"s">>, <<>>, <<>>, <<>>, <<>>),
      \* link, and a layout mode without direction or flow
      ProNode(S1, S0, <<>>, <<>>, <<>>, <<>>, <<"u">>, <<"h">>, <<>>, <<>>),
      \* layout direction and flow without a mode
      ProNode(S2, S0, <<>>, <<>>, <<>>, <<>>, <<>>, <<>>, <<"r">>, <<"l">>) }

\* an archive whose second record carries a parent-relation element, with a
\* cross-link and an attachment
ProFile ==
    [RawFile(<<Topic(S0, Sentinel, TextRoot, 0, 0),
               [Topic(S1, S0, TextA, 100000, 0)
                  EXCEPT !.parent_relation = <<(<<"g">>)>>],
               Topic(S2, S0, TextB, 0, 100000)>>)
       EXCEPT !.relations = <<(<<[guid |-> <<(<<"x">>)>>, source |-> <<S1>>,
                                  target |-> <<S2>>]>>)>>,
              !.images = <<[stem |-> "h1", ext |-> "png", data |-> Blob]>>]

ProAddNode ==
    /\ Len(mm.objs) < MaxProNodes
    /\ \E node \in ProNodes :
          /\ mm' = add_node(mm, node)
          /\ last' = [NoCall EXCEPT !.tool = "add_node_method", !.id = node.id]
    /\ UNCHANGED <<fs, walk, ncalls>>

LibToDict ==
    /\ \E i \in 1..Len(mm.nodes) :
          last' = [NoCall EXCEPT !.tool = "to_dict", !.id = mm.nodes[i].key,
                      !.outcome = "ok", !.before = mm, !.after = mm,
                      !.results = <<to_dict(mm, mm.nodes[i].val)>>]
    /\ UNCHANGED <<fs, mm, walk, ncalls>>

InitPro ==
    /\ fs \in {[p \in Paths |-> IF p = "a.smmx" THEN f ELSE NoFile] :
                  f \in {NoFile, ProFile}}
    /\ mm = SimpleMindMap
    /\ last = NoCall
    /\ walk = Idle
    /\ ncalls = 0

NextPro == ProAddNode \/ LibToDict \/ LibWrite \/ LibRead

SpecPro == InitPro /\ [][NextPro]_vars

NextImages == LibAddNode \/ LibAttach \/ LibWrite \/ LibRead

SpecImages == InitLib /\ [][NextImages]_vars

-----------------------------------------------------------------------------
(* Views of a document *)

Refs(doc) == {doc.nodes[i].val : i \in 1..Len(doc.nodes)}

ChildIds(doc, ref) ==
    [i \in 1..Len(doc.objs[ref].children) |-> doc.objs[doc.objs[ref].children[i]].id]

\* how many times x occurs in the sequence s
Count(s, x) == Cardinality({i \in 1..Len(s) : s[i] = x})

\* the mapped nodes reachable from the node `ref` through children sequences
RECURSIVE Reach(_, _, _)
Reach(doc, frontier, seen) ==
    IF frontier \subseteq seen THEN seen
    ELSE Reach(doc,
               UNION {{doc.objs[r].children[i] : i \in 1..Len(doc.objs[r].children)} :
                        r \in frontier},
               seen \cup frontier)

\* the keys whose chain of parent_id links passes through the key `id`
RECURSIVE Below(_, _)
Below(doc, ids) ==
    LET more == {k \in Keys(doc.nodes) :
                    doc.objs[get_node(doc, k)].parent_id \in ids} \ ids
    IN  IF more = {} THEN ids ELSE Below(doc, ids \cup more)

Descendants(doc, id) == Below(doc, {id}) \ {id}

\* a single-root tree: ids are those of the mapped objects, parent links and
\* children sequences agree, everything hangs from root
WellFormed(doc) ==
    /\ doc.root_node \in Refs(doc)
    /\ \A i \in 1..Len(doc.nodes) : doc.objs[doc.nodes[i].val].id = doc.nodes[i].key
    /\ \A r \in Refs(doc) :
          (doc.objs[r].parent_id = Sentinel) <=> (r = doc.root_node)
    /\ \A r \in Refs(doc) :
          doc.objs[r].parent_id # Sentinel =>
             /\ HasKey(doc.nodes, doc.objs[r].parent_id)
             /\ \A q \in Refs(doc) :
                   Count(doc.objs[q].children, r) =
                      IF q = get_node(doc, doc.objs[r].parent_id) THEN 1 ELSE 0
    /\ \A q \in Refs(doc) : \A i \in 1..Len(doc.objs[q].children) :
          /\ doc.objs[q].children[i] \in Refs(doc)
          /\ doc.objs[doc.objs[q].children[i]].parent_id = doc.objs[q].id
    /\ Reach(doc, {doc.root_node}, {}) = Refs(doc)

Mutators == {"add_node", "update_node", "delete_node"}

Stored(p) == Read(fs[p])

\* the last call was tool `t` and it saved its change
Did(t) == last.tool = t /\ last.outcome = "ok"

\* a node's fields, its children given by their ids
NodeView(doc, ref) == [doc.objs[ref] EXCEPT !.children = ChildIds(doc, ref)]

\* the mapping, in its order: key and node
NodeSeq(doc) ==
    [i \in 1..Len(doc.nodes) |->
        [key |-> doc.nodes[i].key, node |-> NodeView(doc, doc.nodes[i].val)]]

NodeSet(doc) == {NodeSeq(doc)[i] : i \in 1..Len(doc.nodes)}

DocView(doc) ==
    [nodes |-> NodeSeq(doc),
     root |-> IF doc.root_node = 0 THEN <<>> ELSE <<doc.objs[doc.root_node].id>>,
     title |-> doc.title, guid |-> doc.guid, style |-> doc.style,
     zoom |-> doc.zoom, scroll_x |-> doc.scroll_x, scroll_y |-> doc.scroll_y,
     contains_images |-> doc.contains_images,
     relations |-> doc.relations, images |-> doc.images]

\* parents added before children, ids unique, one root
HonoursInvariants(doc) == WellFormed(doc) /\ Len(doc.objs) = Len(doc.nodes)

\* the tools that read the document before anything else
Readers == {"add_node", "delete_node", "get_node_path"}

\* the last call decoded an archive into last.before
Decoded == last.tool \in Readers /\ last.outcome # "exception"

-----------------------------------------------------------------------------
(* C1: starting from a well-formed single-root document, after every        *)
(* add_node, update_node or delete_node call the document the handler holds *)
(* and every stored document is a single-root tree: each node whose         *)
(* parent_id is P occurs exactly once in the children of the node with id P *)
(* and in no other children sequence, and every mapped node is reachable    *)
(* from root through children sequences.                                    *)
C1_TreeInvariant ==
    /\ last.tool \in Mutators /\ last.outcome = "ok" => WellFormed(last.after)
    /\ \A p \in Paths : fs[p].exists => WellFormed(Stored(p))

-----------------------------------------------------------------------------
-----------------------------------------------------------------------------
(* C3: a delete_node call answers not-found exactly when the id is not in   *)
(* the mapping and invalid-operation exactly when the target's parent_id is *)
(* the root sentinel, and in both cases the document and every stored file  *)
(* are left as they were.                                                   *)
C3_DeleteErrors ==
    [][ncalls' # ncalls /\ last'.tool = "delete_node" =>
          LET doc == Read(fs[last'.filepath])
              known == HasKey(doc.nodes, last'.id)
          IN  /\ last'.outcome = "not_found" <=> ~known
              /\ last'.outcome = "invalid" <=>
                    known /\ doc.objs[get_node(doc, last'.id)].parent_id = Sentinel
              /\ last'.outcome \in {"not_found", "invalid"} =>
                    /\ fs' = fs
                    /\ last'.after = doc
                    /\ last'.before = doc]_vars

C3_Witness ==
    /\ last.tool = "delete_node"
    /\ last.outcome = "invalid"
    /\ last.id = S0
    /\ ncalls = 2
    /\ Len(Stored("a.smmx").nodes) = 4

-----------------------------------------------------------------------------
(* C4: for a document built by add_node calls that honours the data-model   *)
(* invariants, reading back what write stored gives the same node ids, the  *)
(* same fields of every node and the same children sequences.               *)
C4_RoundTrip ==
    HonoursInvariants(mm) => NodeSet(Read(Write(mm))) = NodeSet(mm)

-----------------------------------------------------------------------------
(* C5: a document produced by the decoder is a fixed point of write then    *)
(* read: nodes, children sequences, root, metadata, relations and           *)
(* attachments are all the same after the cycle.                            *)
C5_FixedPoint ==
    Decoded => DocView(Read(Write(last.before))) = DocView(last.before)

-----------------------------------------------------------------------------
(* C6: whatever the order of the records, the decoded document has every    *)
(* node whose parent id is in the input in that parent's children sequence. *)
C6_ForwardReferences ==
    Decoded =>
        LET doc == last.before
        IN  \A r \in Refs(doc) :
               HasKey(doc.nodes, doc.objs[r].parent_id) =>
                  Count(doc.objs[get_node(doc, doc.objs[r].parent_id)].children, r) = 1

-----------------------------------------------------------------------------
(* C7: get_node_path stops after at most as many iterations as the mapping  *)
(* has entries, and on a chain of parent links that does not end at a root  *)
(* (a cycle, a parent id not in the mapping) it answers with an error, not  *)
(* with a path.                                                             *)
C7_PathBounded ==
    /\ walk.pc = "loop" => Len(walk.path) < Len(walk.doc.nodes)
    /\ last.tool = "get_node_path" /\ last.outcome = "ok" =>
          last.before.objs[get_node(last.before, last.path[1].id)].parent_id = Sentinel

-----------------------------------------------------------------------------
(* C8: on a well-formed tree get_node_path returns the (id, text) pairs of  *)
(* the node and its ancestors from the root down to the node, each element  *)
(* the parent of the next; for an id not in the mapping it answers          *)
(* not-found.                                                               *)
C8_PathRootToTarget ==
    last.tool = "get_node_path" /\ last.outcome \in {"ok", "not_found"} =>
        LET doc == last.before
            path == last.path
            node(i) == doc.objs[get_node(doc, path[i].id)]
        IN  /\ last.outcome = "not_found" <=> ~HasKey(doc.nodes, last.id)
            /\ last.outcome = "ok" =>
                /\ Len(path) >= 1
                /\ path[Len(path)].id = last.id
                /\ path[1].id = doc.objs[doc.root_node].id
                /\ \A i \in 1..Len(path) :
                      /\ HasKey(doc.nodes, path[i].id)
                      /\ path[i].text = node(i).text
                      /\ node(i).parent_id =
                            IF i = 1 THEN Sentinel ELSE path[i - 1].id

C8_Witness ==
    /\ last.tool = "get_node_path"
    /\ last.outcome = "ok"
    /\ last.id = S2
    /\ last.path = <<[id |-> S0, text |-> TextRoot], [id |-> S1, text |-> TextA],
                     [id |-> S2, text |-> TextB]>>

-----------------------------------------------------------------------------
(* C9: update_node answers invalid-operation exactly when neither text nor  *)
(* notes is supplied; otherwise it sets the supplied fields and only those: *)
(* notes supplied as the empty string clears the notes, notes not supplied  *)
(* leaves them.                                                             *)
C9_UpdateSupplied ==
    last.tool = "update_node" =>
        /\ last.outcome = "invalid" <=> (last.text = <<>> /\ last.notes = <<>>)
        /\ last.outcome = "ok" =>
              LET old == last.before.objs[get_node(last.before, last.id)]
                  new == last.after.objs[get_node(last.after, last.id)]
              IN  /\ new.text = Attr(last.text, old.text)
                  /\ new.notes = Attr(last.notes, old.notes)

-----------------------------------------------------------------------------
(* C10: add_node gives the new node the decimal string of one more than the *)
(* largest integer value of the ids in the mapping; that id is not a key of *)
(* the mapping, the mapping grows by exactly that entry, and the new node   *)
(* is the last of its parent's children.                                    *)
C10_FreshId ==
    Did("add_node") =>
        LET before == last.before
            after == last.after
            new == last.new_id
            children == ChildIds(after, get_node(after, last.id))
        IN  /\ IsInt(new) /\ new = StrOf(IntOf(new))
            /\ \A k \in Keys(before.nodes) : IntOf(k) < IntOf(new)
            /\ \E k \in Keys(before.nodes) : IntOf(k) + 1 = IntOf(new)
            /\ ~HasKey(before.nodes, new)
            /\ after.nodes = Append(before.nodes,
                                    [key |-> new, val |-> Len(before.objs) + 1])
            /\ after.objs[Len(before.objs) + 1].id = new
            /\ children = Append(ChildIds(before, get_node(before, last.id)), new)

-----------------------------------------------------------------------------
-----------------------------------------------------------------------------
(* C12: an add_node call whose parent_id is no key of the stored document   *)
(* answers not-found (and only then), makes no node and writes neither the  *)
(* original nor the output path.                                            *)
C12_AddParentNotFound ==
    [][ncalls' # ncalls /\ last'.tool = "add_node" =>
          LET doc == Read(fs[last'.filepath])
          IN  /\ last'.outcome = "not_found" <=> ~HasKey(doc.nodes, last'.id)
              /\ last'.outcome = "not_found" =>
                    /\ fs' = fs
                    /\ last'.before = doc
                    /\ last'.after = doc
                    /\ last'.new_id = <<>>]_vars

C12_Witness ==
    /\ last.tool = "add_node"
    /\ last.outcome = "not_found"
    /\ last.id = MissingId
    /\ last.output_path = "b.smmx"
    /\ ~fs["b.smmx"].exists
    /\ Len(last.after.nodes) = 3

-----------------------------------------------------------------------------
(* C13: search_nodes returns a node at most once, and returns it exactly    *)
(* when the lower-cased query occurs in its lower-cased text, or            *)
(* search_notes is set and it occurs in its lower-cased notes; with         *)
(* search_notes unset a match in the notes alone returns nothing.           *)
C13_SearchMatches ==
    last.tool = "search_nodes" =>
        LET doc == last.before
            q == Lower(last.text[1])
            in_text(r) == IsSubstr(q, Lower(doc.objs[r].text))
            in_notes(r) == IsSubstr(q, Lower(doc.objs[r].notes))
        IN  /\ \A r \in Refs(doc) :
                  Count(last.results, r) =
                     IF in_text(r) \/ (last.search_notes /\ in_notes(r)) THEN 1 ELSE 0
            /\ \A i \in 1..Len(last.results) : last.results[i] \in Refs(doc)

C13_Witness ==
    /\ last.tool = "search_nodes"
    /\ last.text = <<<<"b">>>>
    /\ last.search_notes
    /\ \E r \in Refs(last.before) :
          /\ last.before.objs[r].text = TextB
          /\ last.before.objs[r].notes = NotesNew
          /\ Count(last.results, r) = 1
    /\ Len(last.results) < Len(last.before.nodes)

-----------------------------------------------------------------------------
(* C14: search_nodes returns its matches in the order of the mapping, an    *)
(* empty query returns every node of the mapping, and the call leaves the   *)
(* document and the files as they were.                                     *)
C14_SearchOrder ==
    [][last'.tool = "search_nodes" =>
          LET doc == mm
              res == last'.results
              pos(r) == CHOOSE i \in 1..Len(doc.nodes) : doc.nodes[i].val = r
          IN  /\ \A i, j \in 1..Len(res) : i < j => pos(res[i]) < pos(res[j])
              /\ last'.text[1] = <<>> =>
                    res = [i \in 1..Len(doc.nodes) |-> doc.nodes[i].val]
              /\ mm' = mm
              /\ fs' = fs]_vars

C14_Witness ==
    /\ last.tool = "search_nodes"
    /\ last.text = <<<<"A">>>>
    /\ Len(last.results) = 2
    /\ Len(last.before.nodes) = 3
    /\ last.results[1] = last.before.nodes[1].val
    /\ last.results[2] = last.before.nodes[3].val

-----------------------------------------------------------------------------
-----------------------------------------------------------------------------
(* C16: when a write fails the path still holds what it held before: after  *)
(* every write_mindmap call the path holds either the complete archive of   *)
(* the document or, untouched, the prior file.                              *)
C16_NoPartialWrites ==
    [][last'.tool = "write_mindmap" /\ fs["a.smmx"].exists =>
          /\ fs'["a.smmx"] \in {fs["a.smmx"], Write(mm)}
          /\ last'.outcome = "exception" => fs' = fs]_vars

-----------------------------------------------------------------------------
(* C17: an add_node, update_node or delete_node call that succeeds writes   *)
(* the whole changed document to one path, the output_path argument when    *)
(* given and the file's own path otherwise, and leaves every other file,    *)
(* the original included when output_path differs, as it was.               *)
C17_WritesOnePath ==
    [][ncalls' # ncalls /\ last'.tool \in Mutators /\ last'.outcome = "ok" =>
          LET out == IF last'.output_arg = <<>> THEN last'.filepath
                     ELSE last'.output_arg[1]
              stored == Read(fs'[out])
          IN  /\ fs'[out].exists
              /\ NodeSet(stored) = NodeSet(last'.after)
              /\ [DocView(stored) EXCEPT !.nodes = <<>>] =
                    [DocView(last'.after) EXCEPT !.nodes = <<>>]
              /\ \A p \in Paths \ {out} : fs'[p] = fs[p]]_vars

C17_Witness ==
    /\ Did("delete_node")
    /\ last.output_arg = <<"b.smmx">>
    /\ last.filepath = "a.smmx"
    /\ ncalls = 1
    /\ Len(Stored("a.smmx").nodes) = 3
    /\ Len(Stored("b.smmx").nodes) = 1

-----------------------------------------------------------------------------
(* C18: add_node places the new child from the grandparent's position, the  *)
(* parent's position and the number of children the parent has, and from    *)
(* nothing else. Without a grandparent: 200 right of the parent and 100     *)
(* down per existing child. With one: on the line from grandparent through  *)
(* parent, as far beyond the parent again; from the second child on, moved  *)
(* off that point at a right angle to the line by 80 times the half of the  *)
(* child index rounded up, odd indexes to the negative side. Grandparent    *)
(* (0,0), parent (100,0), one child already: (200,-80).                     *)
C18_Placement ==
    Did("add_node") =>
        LET before == last.before
            P == before.objs[get_node(before, last.id)]
            N == last.after.objs[get_node(last.after, last.new_id)]
            k == Len(P.children)
            hasG == P.parent_id # Sentinel /\ HasKey(before.nodes, P.parent_id)
            G == before.objs[get_node(before, P.parent_id)]
            dx == (P.x - G.x) \div 1000
            dy == (P.y - G.y) \div 1000
            ox == (N.x - (2 * P.x - G.x)) \div 1000
            oy == (N.y - (2 * P.y - G.y)) \div 1000
            m == (k + 1) \div 2
        IN  /\ N.x % 1000 = 0 /\ N.y % 1000 = 0 /\ P.x % 1000 = 0 /\ P.y % 1000 = 0
            /\ ~hasG => N.x = P.x + 200000 /\ N.y = P.y + k * 100000
            /\ hasG =>
                  /\ G.x % 1000 = 0 /\ G.y % 1000 = 0
                  /\ k = 0 => ox = 0 /\ oy = 0
                  /\ k > 0 /\ (dx # 0 \/ dy # 0) =>
                        /\ ox * dx + oy * dy = 0
                        /\ ox * ox + oy * oy = (Spacing * m) * (Spacing * m)
                        /\ IF k % 2 = 1 THEN dx * oy - dy * ox < 0
                                       ELSE dx * oy - dy * ox > 0
                  /\ G.x = 0 /\ G.y = 0 /\ P.x = 100000 /\ P.y = 0 /\ k = 1 =>
                        N.x = 200000 /\ N.y = 0 - 80000

C18_Witness ==
    /\ Did("add_node")
    /\ last.id = S1
    /\ last.before.objs[get_node(last.before, S0)].x = 0
    /\ last.before.objs[get_node(last.before, S1)].x = 100000
    /\ Len(last.before.objs[get_node(last.before, S1)].children) = 1
    /\ last.after.objs[get_node(last.after, last.new_id)].x = 200000
    /\ last.after.objs[get_node(last.after, last.new_id)].y = 0 - 80000

-----------------------------------------------------------------------------
\* the objects in the order the encoder visits them
RECURSIVE PreOrder(_, _)
PreOrder(doc, refs) ==
    IF refs = <<>> THEN <<>>
    ELSE <<refs[1]>> \o PreOrder(doc, doc.objs[refs[1]].children)
                    \o PreOrder(doc, Tail(refs))

\* a flat representation whose optional keys are there exactly for the
\* fields of the node that are set, all the way down
RECURSIVE DictMinimal(_, _, _)
DictMinimal(doc, ref, d) ==
    LET n == doc.objs[ref]
    IN  /\ NodeDictKeys \subseteq DOMAIN d
        /\ DOMAIN d \subseteq NodeDictKeys \cup {"icon", "url_link", "layout"}
        /\ "icon" \in DOMAIN d <=> n.icon # <<>>
        /\ "url_link" \in DOMAIN d <=> n.url_link # <<>>
        /\ "layout" \in DOMAIN d <=> n.layout_mode # <<>>
        /\ Len(d["children"]) = Len(n.children)
        /\ \A i \in 1..Len(n.children) :
              DictMinimal(doc, n.children[i], d["children"][i])

(* C19: to_dict has the key icon exactly when the node's icon is set,       *)
(* url_link exactly when its link is set, layout exactly when its layout    *)
(* mode is set; and a record written by the encoder carries palette,        *)
(* colorinfo, icon, link, note, parent-relation and layout exactly when the *)
(* node's field is set.                                                     *)
C19_OptionalAttributes ==
    /\ last.tool = "to_dict" =>
          DictMinimal(mm, get_node(mm, last.id), last.results[1])
    /\ last.tool = "write_mindmap" /\ last.outcome = "ok" =>
          LET pre == PreOrder(mm, root_nodes(mm))
              topics == fs["a.smmx"].topics
          IN  /\ Len(topics) = Len(pre)
              /\ \A i \in 1..Len(pre) :
                    LET t == topics[i]
                        n == mm.objs[pre[i]]
                    IN  /\ t.palette # <<>> <=> n.palette # <<>>
                        /\ t.colorinfo # <<>> <=> n.colorinfo # <<>>
                        /\ t.icon # <<>> <=> n.icon # <<>>
                        /\ t.link # <<>> <=> n.url_link # <<>>
                        /\ t.note # <<>> <=> n.notes # <<>>
                        /\ t.parent_relation # <<>> <=> n.parent_relation_guid # <<>>
                        /\ t.layout # <<>> <=> n.layout_mode # <<>>

C19_Witness ==
    /\ last.tool = "to_dict"
    /\ last.id = S0
    /\ "layout" \in DOMAIN last.results[1]
    /\ "icon" \in DOMAIN last.results[1]
    /\ Len(last.results[1]["children"]) = 1
    /\ "layout" \notin DOMAIN last.results[1]["children"][1]
    /\ mm.objs[2].layout_direction # <<>>
    /\ fs["a.smmx"].exists
    /\ Len(fs["a.smmx"].topics) = 2
    /\ fs["a.smmx"].topics[1].palette # <<>>
    /\ fs["a.smmx"].topics[2].layout = <<>>
    /\ fs["a.smmx"].topics[2].palette = <<>>

-----------------------------------------------------------------------------
(* C20: a write leaves the document as it was: the mapping, every node's    *)
(* fields and children, the root, the metadata, the relations and the       *)
(* attachments are after a write what they were before it.                  *)
C20_EncodeFrames == [][last'.tool = "write_mindmap" => mm' = mm]_vars

C20_Witness ==
    /\ last.tool = "write_mindmap"
    /\ last.outcome = "ok"
    /\ Len(mm.nodes) = 3
    /\ mm.relations # <<>>
    /\ mm.images # <<>>
    /\ mm.guid = <<>>
    /\ fs["a.smmx"].meta # <<>>
    /\ fs["a.smmx"].meta[1].guid = <<(<<GeneratedGuid>>)>>

-----------------------------------------------------------------------------
\* where the record of the node `id` stands among the records
PosOf(topics, id) == CHOOSE i \in 1..Len(topics) : topics[i].id = id

\* the path a successful mutator wrote
OutPath == IF last.output_arg = <<>> THEN last.filepath ELSE last.output_arg[1]

-----------------------------------------------------------------------------
(* C22: when the parent has no grandparent (its parent_id is the sentinel   *)
(* or names no node), or stands where its grandparent stands, add_node      *)
(* places the new child at parent.x + 200, parent.y + 100 * k, k being the  *)
(* number of children the parent already has.                               *)
C22_Fallback ==
    Did("add_node") =>
        LET before == last.before
            P == before.objs[get_node(before, last.id)]
            N == last.after.objs[get_node(last.after, last.new_id)]
            k == Len(P.children)
            hasG == P.parent_id # Sentinel /\ HasKey(before.nodes, P.parent_id)
            G == before.objs[get_node(before, P.parent_id)]
        IN  (~hasG \/ (G.x = P.x /\ G.y = P.y)) =>
               N.x = P.x + 200000 /\ N.y = P.y + k * 100000

-----------------------------------------------------------------------------
Sgn(v) == IF v > 0 THEN 1 ELSE IF v < 0 THEN 0 - 1 ELSE 0

-----------------------------------------------------------------------------
(* C24: a successful update_node changes the text and the notes of the      *)
(* target node and nothing else: the mapping, every other field and the     *)
(* children of every node, the root, the metadata, the relations and the    *)
(* attachments are as they were, and so are the text and the notes of every *)
(* other node.                                                              *)
C24_UpdateFrame ==
    Did("update_node") =>
        LET before == last.before
            after == last.after
            target == get_node(before, last.id)
        IN  /\ after.nodes = before.nodes
            /\ [after EXCEPT !.objs = <<>>] = [before EXCEPT !.objs = <<>>]
            /\ Len(after.objs) = Len(before.objs)
            /\ \A r \in 1..Len(before.objs) :
                  IF r = target
                  THEN [after.objs[r] EXCEPT !.text = <<>>, !.notes = <<>>] =
                          [before.objs[r] EXCEPT !.text = <<>>, !.notes = <<>>]
                  ELSE after.objs[r] = before.objs[r]

\* the text of a root with two children changed, in a document with a
\* cross-link and an attachment
C24_Witness ==
    /\ Did("update_node")
    /\ last.id = S0
    /\ last.before.relations # <<>>
    /\ last.before.images # <<>>
    /\ Len(last.before.objs[get_node(last.before, S0)].children) = 2
    /\ last.before.objs[get_node(last.before, S0)].text = TextRoot
    /\ last.after.objs[get_node(last.after, S0)].text = TextNew
    /\ last.after.objs[get_node(last.after, S1)].notes = NotesOld

-----------------------------------------------------------------------------
(* C25: whatever add_node calls built the document, every entry of a mapped *)
(* node's children sequence is the node the mapping holds under that        *)
(* entry's id; a node added under an id already in the mapping leaves no    *)
(* earlier node behind in a children sequence. Entries are compared by      *)
(* their fields, so that the same node added twice does not count.          *)
C25_NoStaleChildren ==
    \A r \in Refs(mm) : \A i \in 1..Len(mm.objs[r].children) :
        LET child == mm.objs[mm.objs[r].children[i]]
        IN  /\ HasKey(mm.nodes, child.id)
            /\ mm.objs[get_node(mm, child.id)] = child

-----------------------------------------------------------------------------
(* C26: a successful delete_node takes the entries of the target and its    *)
(* descendants out of the mapping and the target out of its parent's        *)
(* children, and changes nothing else: the relations, those naming a        *)
(* removed id included, the metadata, the attachments, the root, and every  *)
(* field and the children of every remaining node but the parent are as     *)
(* they were, in the handler's document and in the stored one.              *)
C26_DeleteFrame ==
    Did("delete_node") =>
        LET before == last.before
            after == last.after
            gone == Descendants(before, last.id) \cup {last.id}
            parent == get_node(before, before.objs[get_node(before, last.id)].parent_id)
        IN  /\ after.nodes = SelectSeq(before.nodes, LAMBDA e : e.key \notin gone)
            /\ [after EXCEPT !.objs = <<>>, !.nodes = <<>>] =
                  [before EXCEPT !.objs = <<>>, !.nodes = <<>>]
            /\ after.relations = before.relations
            /\ after.images = before.images
            /\ \A r \in Refs(after) :
                  IF r = parent
                  THEN /\ [after.objs[r] EXCEPT !.children = <<>>] =
                            [before.objs[r] EXCEPT !.children = <<>>]
                       /\ after.objs[r].children =
                            SelectSeq(before.objs[r].children,
                                      LAMBDA c : before.objs[c].id # last.id)
                  ELSE after.objs[r] = before.objs[r]
            /\ Stored(OutPath).relations = before.relations
            /\ Stored(OutPath).images = before.images

\* the first of two children deleted, a cross-link naming it
C26_Witness ==
    /\ Did("delete_node")
    /\ last.id = S1
    /\ last.before.relations = <<Relation(<<"x">>, S1, S3)>>
    /\ last.after.relations = <<Relation(<<"x">>, S1, S3)>>
    /\ last.after.images # <<>>
    /\ Keys(last.after.nodes) = {S0, S3}
    /\ ChildIds(last.after, get_node(last.after, S0)) = <<S3>>
    /\ Stored(OutPath).relations = <<Relation(<<"x">>, S1, S3)>>

-----------------------------------------------------------------------------
(* C27: on a well-formed document with numeric ids, add_node followed by    *)
(* delete_node of the id just allocated gives back the document as it was:  *)
(* the mapping, the children sequences, the root; and the next add_node     *)
(* allocates that id again. mm is the document as decoded before the calls. *)
C27_AddDeleteInverse ==
    [][ncalls' # ncalls =>
          /\ (/\ last.tool = "add_node" /\ last.outcome = "ok"
               /\ DocView(last.before) = DocView(mm)
               /\ last'.tool = "delete_node"
               /\ last'.id = last.new_id
               /\ last'.filepath = last.output_path)
              => /\ last'.outcome = "ok"
                 /\ DocView(last'.after) = DocView(mm)
                 /\ DocView(Read(fs'[last'.output_path])) = DocView(mm)
          /\ (/\ last.tool = "delete_node" /\ last.outcome = "ok"
               /\ DocView(last.after) = DocView(mm)
               /\ ~HasKey(mm.nodes, last.id)
               /\ last'.tool = "add_node" /\ last'.outcome = "ok"
               /\ last'.filepath = last.output_path)
              => last'.new_id = last.id]_vars

\* node 4, which the decoded document does not have, was added and is
\* deleted again: the stored document is the decoded one
C27_Witness ==
    /\ ncalls = 2
    /\ Did("delete_node")
    /\ last.id = <<"4">>
    /\ ~HasKey(mm.nodes, <<"4">>)
    /\ Len(mm.nodes) = 3
    /\ HasKey(last.before.nodes, <<"4">>)
    /\ DocView(last.after) = DocView(mm)
    /\ DocView(Stored("a.smmx")) = DocView(mm)

-----------------------------------------------------------------------------
(* C28: in a document with several nodes whose parent_id is the sentinel,   *)
(* root is the one added last and all of them are in the mapping; no        *)
(* delete_node call removes any of them; and what a successful call writes  *)
(* reads back with every one of them and its subtree: the same ids under    *)
(* the same parents, with the same children sequences.                     *)
C28_MultiRoot ==
    [][ncalls' # ncalls /\ ~ReadRaises(fs[last'.filepath]) =>
          LET doc == Read(fs[last'.filepath])
              roots == root_nodes(doc)
          IN  /\ Len(roots) >= 1 => doc.root_node = roots[Len(roots)]
              /\ \A i \in 1..Len(doc.objs) :
                    doc.objs[i].parent_id = Sentinel => get_node(doc, doc.objs[i].id) = i
              /\ (/\ last'.tool = "delete_node"
                   /\ HasKey(doc.nodes, last'.id)
                   /\ doc.objs[get_node(doc, last'.id)].parent_id = Sentinel)
                  => last'.outcome = "invalid" /\ fs' = fs
              /\ last'.tool \in Mutators /\ last'.outcome = "ok" =>
                    LET d == last'.after
                        back == Read(fs'[last'.output_path])
                    IN  /\ Len(root_nodes(back)) = Len(root_nodes(doc))
                        /\ \A i \in 1..Len(d.nodes) :
                              LET n == d.objs[d.nodes[i].val]
                              IN  n.parent_id = Sentinel =>
                                    \A k \in Below(d, {n.id}) :
                                       /\ HasKey(back.nodes, k)
                                       /\ back.objs[get_node(back, k)].parent_id =
                                             d.objs[get_node(d, k)].parent_id
                                       /\ ChildIds(back, get_node(back, k)) =
                                             ChildIds(d, get_node(d, k))]_vars

\* a node added under the child of the floating theme, next to a main theme
\* with a child of its own; both themes and their subtrees are in the archive
C28_Witness ==
    /\ Did("add_node")
    /\ last.id = S3
    /\ Len(root_nodes(last.before)) = 2
    /\ last.before.objs[last.before.root_node].id = S2
    /\ Len(root_nodes(Stored(OutPath))) = 2
    /\ Keys(Stored(OutPath).nodes) = {S0, S2, S3, <<"4">>}
    /\ ChildIds(Stored(OutPath), get_node(Stored(OutPath), S3)) = << <<"4">> >>
    /\ Stored(OutPath).objs[Stored(OutPath).root_node].id = S2

-----------------------------------------------------------------------------
\* the mapped nodes whose parent_id is the sentinel
SentinelRefs(doc) == {r \in Refs(doc) : doc.objs[r].parent_id = Sentinel}

(* C29: write emits a record for a mapped node exactly when the node can be *)
(* reached through children sequences from a node whose parent_id is the    *)
(* sentinel; so there are as many records as mapping entries exactly when   *)
(* every mapped node can be reached, and a node whose parent_id names no    *)
(* node has no record and is not in the document read back.                 *)
C29_EmittedIffReachable ==
    last.tool = "write_mindmap" /\ last.outcome = "ok" =>
        LET topics == fs["a.smmx"].topics
            reach == Reach(mm, SentinelRefs(mm), {})
        IN  /\ \A r \in Refs(mm) :
                  r \in reach <=>
                     \E i \in 1..Len(topics) : topics[i] = TopicOfNode(mm.objs[r])
            /\ Len(topics) = Len(mm.nodes) <=> Refs(mm) \subseteq reach
            /\ \A r \in Refs(mm) :
                  mm.objs[r].parent_id # Sentinel /\ ~HasKey(mm.nodes, mm.objs[r].parent_id)
                  => /\ \A i \in 1..Len(topics) : topics[i].id # mm.objs[r].id
                     /\ ~HasKey(Read(fs["a.smmx"]).nodes, mm.objs[r].id)

-----------------------------------------------------------------------------
\* where the key stands in the mapping
KeyPos(d, key) == CHOOSE i \in 1..Len(d) : d[i].key = key

(* C30: find_nodes_without_notes returns the nodes whose notes are empty    *)
(* and whose parent_id is not the sentinel, those and no other, each once,  *)
(* in the order of the mapping; the count it reports is the length of the   *)
(* list; no file is changed.                                                *)
C30_WithoutNotes ==
    [][ncalls' # ncalls /\ last'.tool = "find_nodes_without_notes"
          /\ last'.outcome = "ok" =>
          LET doc == Read(fs[last'.filepath])
              res == last'.results
          IN  /\ fs' = fs
              /\ last'.count = Len(res)
              /\ \A i \in 1..Len(res) : HasKey(doc.nodes, res[i].id)
              /\ \A k \in Keys(doc.nodes) :
                    Cardinality({i \in 1..Len(res) : res[i].id = k}) =
                       IF /\ doc.objs[get_node(doc, k)].notes = <<>>
                          /\ doc.objs[get_node(doc, k)].parent_id # Sentinel
                       THEN 1 ELSE 0
              /\ \A i, j \in 1..Len(res) :
                    i < j => KeyPos(doc.nodes, res[i].id) < KeyPos(doc.nodes, res[j].id)]_vars

\* four nodes: the root and a node with notes left out, the two others
\* returned in mapping order
C30_Witness ==
    /\ last.tool = "find_nodes_without_notes"
    /\ last.outcome = "ok"
    /\ Len(last.before.nodes) = 4
    /\ HasKey(last.before.nodes, S0)
    /\ HasKey(last.before.nodes, S1)
    /\ last.before.objs[get_node(last.before, S0)].notes = <<>>
    /\ last.before.objs[get_node(last.before, S1)].notes = NotesOld
    /\ last.count = 2
    /\ Len(last.results) = 2
    /\ last.results[1].id = S2
    /\ last.results[2].id = S3

=============================================================================
